---- MODULE Spec2Model ----
(***************************************************************************)
(* lightwood/api/predictor.py: the Predictor orchestrator.                 *)
(*                                                                         *)
(* The Predictor's attribute dictionary (self.__dict__) is the state; the  *)
(* Data Source, the column encoders and the Mixer are the collaborators it *)
(* drives.  A learn call is several steps (one per element of iter_fit),   *)
(* every other call is one step.                                           *)
(***************************************************************************)
EXTENDS Integers, Sequences, FiniteSets, TLC

(***************************************************************************)
(* Bounds of the model.                                                    *)
(***************************************************************************)
FitIterations == 2   \* length of the progress sequence of iter_fit
MaxCalls == 5        \* calls of the Predictor's methods in a run of SpecPersist

(***************************************************************************)
(* Python values.                                                          *)
(***************************************************************************)
None == [py |-> "None"]

EmptyDict == [k \in {} |-> None]

Put(d, k, v) == [c \in (DOMAIN d) \cup {k} |-> IF c = k THEN v ELSE d[c]]

Range(s) == {s[i] : i \in DOMAIN s}

Min(S) == CHOOSE m \in S : \A n \in S : m <= n

RECURSIVE SortedSeq(_)
SortedSeq(S) == IF S = {} THEN <<>> ELSE <<Min(S)>> \o SortedSeq(S \ {Min(S)})

RECURSIVE SumSeq(_)
SumSeq(s) == IF s = <<>> THEN 0 ELSE Head(s) + SumSeq(Tail(s))

(***************************************************************************)
(* Definitions (the `definition` argument) and raw tables.                 *)
(***************************************************************************)
Feature(n, t) == [name |-> n, type |-> t]

ConfigCategorical ==
    [name |-> "test",
     input_features |-> <<Feature("x", "numeric")>>,
     output_features |-> <<Feature("z", "categorical")>>]

ConfigNumeric ==
    [name |-> "test",
     input_features |-> <<Feature("x", "numeric")>>,
     output_features |-> <<Feature("z", "numeric")>>]

ConfigOther ==
    [name |-> "test",
     input_features |-> <<Feature("z", "categorical")>>,
     output_features |-> <<Feature("x", "text")>>]

ConfigNoOutputs ==
    [name |-> "test",
     input_features |-> <<Feature("x", "numeric")>>]

ConfigUntypedFeature ==
    [name |-> "test",
     input_features |-> <<[name |-> "x"]>>,
     output_features |-> <<Feature("z", "numeric")>>]

Definitions ==
    {ConfigCategorical, ConfigNumeric, ConfigOther, ConfigNoOutputs,
     ConfigUntypedFeature}

Columns == {"x", "z"}

\* The raw tables of the model: one or two rows, cells 0 or 1, the rows in
\* increasing order of x (the order of the demo table, x = range(10)).
Values == {0, 1}

RowCounts == {1, 2}

Tables ==
    {t \in UNION {[Columns -> [1 .. n -> Values]] : n \in RowCounts} :
        \A i, j \in DOMAIN t["x"] : i < j => t["x"][i] < t["x"][j]}

NumRows(data_frame) == Len(data_frame["x"])

(***************************************************************************)
(* definition_schema.validate: the required keys name, input_features,    *)
(* output_features, each feature with name and type.  SchemaError is the   *)
(* detail the validator raises with, "ok" when the definition is valid.    *)
(***************************************************************************)
FeaturesError(fs) ==
    IF \E i \in DOMAIN fs : "name" \notin DOMAIN fs[i]
    THEN "Missing key: name"
    ELSE IF \E i \in DOMAIN fs : "type" \notin DOMAIN fs[i]
         THEN "Missing key: type"
         ELSE "ok"

SchemaError(definition) ==
    IF "name" \notin DOMAIN definition THEN "Missing key: name"
    ELSE IF "input_features" \notin DOMAIN definition
         THEN "Missing key: input_features"
    ELSE IF "output_features" \notin DOMAIN definition
         THEN "Missing key: output_features"
    ELSE IF FeaturesError(definition.input_features) # "ok"
         THEN FeaturesError(definition.input_features)
    ELSE FeaturesError(definition.output_features)

(***************************************************************************)
(* Column encoders.  A numeric encoder learns the column's minimum as its  *)
(* normalisation parameter, a categorical encoder learns the categories;   *)
(* encode never changes the fitted state.                                  *)
(***************************************************************************)
FitEncoder(type, raw) ==
    IF type = "categorical"
    THEN [kind |-> "categorical", cats |-> SortedSeq(Range(raw)), offset |-> 0]
    ELSE [kind |-> "numeric", cats |-> <<>>, offset |-> Min(Range(raw))]

EncodeValue(enc, v) ==
    IF enc.kind = "categorical"
    THEN IF \E k \in DOMAIN enc.cats : enc.cats[k] = v
         THEN CHOOSE k \in DOMAIN enc.cats : enc.cats[k] = v
         ELSE 0
    ELSE v - enc.offset

DecodeValue(enc, t) ==
    IF enc.kind = "categorical"
    THEN IF t \in DOMAIN enc.cats THEN enc.cats[t]
         ELSE IF t < 1 THEN enc.cats[1] ELSE enc.cats[Len(enc.cats)]
    ELSE t + enc.offset

EncodeColumn(enc, raw) == [i \in 1 .. Len(raw) |-> EncodeValue(enc, raw[i])]

DecodeColumn(enc, tensor) ==
    [i \in 1 .. Len(tensor) |-> DecodeValue(enc, tensor[i])]

(***************************************************************************)
(* Data Source: one raw table and the definition, the encoders and the     *)
(* encoded cache, both filled on first access of a column.                 *)
(***************************************************************************)
DataSource(data_frame, configuration) ==
    [data_frame |-> data_frame,
     configuration |-> configuration,
     encoders |-> EmptyDict,
     encoded_cache |-> EmptyDict]

AllFeatures(configuration) ==
    configuration.input_features \o configuration.output_features

get_column_config(configuration, column) ==
    LET fs == AllFeatures(configuration)
    IN fs[CHOOSE i \in DOMAIN fs : fs[i].name = column]

get_column_original_data(ds, column) == ds.data_frame[column]

\* The encoder of a column: the one the Data Source holds, else a new one
\* fitted on this Data Source's raw column.
WithEncoder(ds, column) ==
    IF column \in DOMAIN ds.encoders THEN ds
    ELSE [ds EXCEPT !.encoders =
            Put(@, column,
                FitEncoder(get_column_config(ds.configuration, column).type,
                           ds.data_frame[column]))]

get_encoded_column(ds, column) ==
    IF column \in DOMAIN ds.encoded_cache THEN ds
    ELSE LET d1 == WithEncoder(ds, column)
         IN [d1 EXCEPT !.encoded_cache =
               Put(@, column,
                   EncodeColumn(d1.encoders[column], d1.data_frame[column]))]

RECURSIVE EncodeAll(_, _)
EncodeAll(ds, columns) ==
    IF columns = <<>> THEN ds
    ELSE EncodeAll(get_encoded_column(ds, Head(columns)), Tail(columns))

RECURSIVE EncodersFor(_, _)
EncodersFor(ds, columns) ==
    IF columns = <<>> THEN ds
    ELSE EncodersFor(WithEncoder(ds, Head(columns)), Tail(columns))

\* Substituting an encoder set drops whatever the cache held.
SetEncoders(ds, encoders) ==
    [ds EXCEPT !.encoders = encoders, !.encoded_cache = EmptyDict]

(***************************************************************************)
(* Mixer.  The fitted model memorises the encoded training rows: it        *)
(* answers an encoded input row with the encoded output of the first       *)
(* training row that has the same inputs, else with the first row's.       *)
(***************************************************************************)
EncodedKey == "Encoded Predictions"

ActualKey == "Actual Predictions"

PredictionEntry(encoded, actual) == (EncodedKey :> encoded) @@ (ActualKey :> actual)

SkLearnMixer(input_column_names, output_column_names) ==
    [input_column_names |-> input_column_names,
     output_column_names |-> output_column_names,
     model |-> None,
     iterations |-> 0,
     output_predictions |-> None]

InputRow(ds, ins, i) == [k \in 1 .. Len(ins) |-> ds.encoded_cache[ins[k]][i]]

ModelPredict(model, column, row) ==
    LET hits == {i \in DOMAIN model.X : model.X[i] = row}
    IN IF hits = {} THEN model.Y[column][1] ELSE model.Y[column][Min(hits)]

\* Mixer.predict: reads the encoded input columns of the Data Source,
\* decodes with the Data Source's encoders of the output columns, stores and
\* returns the mapping.  ds is the Data Source as the call leaves it.
MixerPredict(m, data_source) ==
    LET d1 == EncodeAll(data_source, m.input_column_names)
        d2 == EncodersFor(d1, m.output_column_names)
        n == NumRows(d2.data_frame)
        encoded(o) ==
            [i \in 1 .. n |->
                ModelPredict(m.model, o, InputRow(d2, m.input_column_names, i))]
        predictions ==
            [o \in Range(m.output_column_names) |->
                PredictionEntry(encoded(o), DecodeColumn(d2.encoders[o], encoded(o)))]
    IN [ds |-> d2,
        mixer |-> [m EXCEPT !.output_predictions = predictions],
        predictions |-> predictions]

\* One element of iter_fit: the encoded columns are read (and cached), the
\* model is refitted; the last element stores the training predictions.
IterFitStep(m, data_source) ==
    LET d1 == EncodeAll(data_source, m.input_column_names \o m.output_column_names)
        n == NumRows(d1.data_frame)
        k == m.iterations + 1
        fitted ==
            [m EXCEPT
               !.iterations = k,
               !.model =
                 [X |-> [i \in 1 .. n |-> InputRow(d1, m.input_column_names, i)],
                  Y |-> [o \in Range(m.output_column_names) |-> d1.encoded_cache[o]],
                  epochs |-> k]]
    IN [ds |-> d1,
        mixer |-> IF k = FitIterations
                  THEN MixerPredict(fitted, d1).mixer
                  ELSE fitted]

(***************************************************************************)
(* sklearn.metrics, as fractions num/den.                                  *)
(***************************************************************************)
accuracy_score(y_true, y_pred) ==
    [kind |-> "fraction",
     num |-> Cardinality({i \in DOMAIN y_true : y_true[i] = y_pred[i]}),
     den |-> Len(y_true)]

\* n^2 times the variance of a sequence of integers.
ScaledVar(s) ==
    Len(s) * SumSeq([i \in 1 .. Len(s) |-> s[i] * s[i]]) - SumSeq(s) * SumSeq(s)

explained_variance_score(y_true, y_pred) ==
    IF Len(y_true) # Len(y_pred)
    THEN [kind |-> "ValueError", num |-> 0, den |-> 0]
    ELSE LET vy == ScaledVar(y_true)
             vd == ScaledVar([i \in 1 .. Len(y_true) |-> y_true[i] - y_pred[i]])
         IN IF vy = 0
            THEN [kind |-> "fraction", num |-> IF vd = 0 THEN 1 ELSE 0, den |-> 1]
            ELSE [kind |-> "fraction", num |-> vy - vd, den |-> vy]

(***************************************************************************)
(* The Predictor.                                                          *)
(***************************************************************************)
Paths == {"tmp/ok.pkl"}

\* load_from_path=None
NoPath == "None"

VARIABLES
    self,           \* the Predictor's __dict__; EmptyDict while no Predictor exists
    pc,             \* "idle", or "learn" while a learn call consumes iter_fit
    from_data_ds,   \* learn's local training Data Source
    mixer,          \* learn's local Mixer
    data_source,    \* the Data Source the last call built for Mixer.predict, as the call left it
    files,          \* path -> pickled blob, None where no file exists
    ret,            \* the last call: what it was, what it returned or raised
    hist,           \* history: the training table behind self, what the last save saw
    calls           \* method calls made so far, and whether they are limited

vars == <<self, pc, from_data_ds, mixer, data_source, files, ret, hist, calls>>

\* A method is called.
Call ==
    /\ calls.limited => calls.n < MaxCalls
    /\ calls' = [calls EXCEPT !.n = IF calls.limited THEN @ + 1 ELSE @]

\* An exception: its type and the parts of its message.
Raise(type, msg) == [type |-> type, msg |-> msg]

\* A call: its name and arguments, whether it is "running", "returned" or
\* "raised", the exception, the value returned, whether
\* definition_schema.validate was called, what was logged.
Outcome(op, arg, status, raised, value, validated, logged) ==
    [op |-> op, arg |-> arg, status |-> status, raised |-> raised,
     value |-> value, validated |-> validated, logged |-> logged]

Returned(op, arg, value) == Outcome(op, arg, "returned", None, value, FALSE, <<>>)

Raised(op, arg, type, msg) ==
    Outcome(op, arg, "raised", Raise(type, msg), None, FALSE, <<>>)

NotTrainedMessage == "Please train the model before calculating accuracy"

\* logging.log is a function of the logging module: it has no attribute `error`.
LoggingLogError(op, arg) ==
    Raised(op, arg, "AttributeError", <<"'function' object has no attribute 'error'">>)

InputColumnNames(definition) ==
    [i \in DOMAIN definition.input_features |-> definition.input_features[i].name]

\* Variant: the Mixer's output columns taken from the input features.
OutputColumnNames_FromInputs(definition) ==
    [i \in DOMAIN definition.input_features |-> definition.input_features[i].name]

OutputColumnNames(definition) ==
    [i \in DOMAIN definition.output_features |-> definition.output_features[i].name]

(***************************************************************************)
(* __init__                                                                *)
(***************************************************************************)
\* Variant: the blob holds only the four attributes of the data model, the
\* stored predictions are lost.
Dump_WithoutPredictions(d) ==
    [format |-> "dill",
     dict |-> [a \in DOMAIN d |-> IF a = "_Predictions" THEN None ELSE d[a]]]

Dump(d) == [format |-> "dill", dict |-> [a \in DOMAIN d |-> d[a]]]

Load(blob) == blob.dict

InitialAttributes(definition) ==
    [definition |-> definition,
     _encoders |-> None,
     _mixer |-> None,
     _encoded_cache |-> None,
     _Predictions |-> None]

\* Variant: the load branch falls through to the validation of `definition`.
LoadReturns_FallsThrough(load_from_path) == FALSE

\* The load branch ends in `return`.
LoadReturns(load_from_path) == load_from_path # NoPath

\* [self, ret] after Predictor(definition, load_from_path); s is the object
\* the caller held before, kept when the constructor raises.
init(s, definition, load_from_path, fs) ==
    LET arg == [definition |-> definition, load_from_path |-> load_from_path]
        loaded == IF load_from_path # NoPath THEN Load(fs[load_from_path]) ELSE s
        err == SchemaError(definition)
    IN IF load_from_path # NoPath /\ fs[load_from_path] = None
       THEN [self |-> s,
             ret |-> Raised("__init__", arg, "FileNotFoundError", <<load_from_path>>)]
       ELSE IF LoadReturns(load_from_path)
       THEN [self |-> loaded, ret |-> Returned("__init__", arg, None)]
       ELSE IF err # "ok"
       THEN [self |-> s,
             ret |-> Outcome("__init__", arg, "raised",
                             Raise("ValueError",
                                   <<"[BAD DEFINITION] argument has errors: ", err>>),
                             None, TRUE, <<>>)]
       ELSE [self |-> InitialAttributes(definition),
             ret |-> Outcome("__init__", arg, "returned", None, None, TRUE, <<>>)]

Construct(definition) ==
    /\ pc = "idle"
    /\ Call
    /\ LET r == init(self, definition, NoPath, files)
       IN /\ self' = r.self
          /\ ret' = r.ret
          /\ hist' = IF r.ret.status = "returned" THEN [hist EXCEPT !.trained = None] ELSE hist
    /\ data_source' = None
    /\ UNCHANGED <<pc, from_data_ds, mixer, files>>

ConstructLoad(load_from_path) ==
    /\ pc = "idle"
    /\ Call
    /\ LET r == init(self, None, load_from_path, files)
       IN /\ self' = r.self
          /\ ret' = r.ret
          /\ hist' = IF r.ret.status = "returned"
                     THEN [hist EXCEPT !.trained = hist.savedTrained]
                     ELSE hist
    /\ data_source' = None
    /\ UNCHANGED <<pc, from_data_ds, mixer, files>>

(***************************************************************************)
(* save                                                                    *)
(***************************************************************************)
Save(path_to) ==
    /\ pc = "idle"
    /\ Call
    /\ self # EmptyDict
    /\ files' = [files EXCEPT ![path_to] = Dump(self)]
    /\ ret' = Returned("save", [path_to |-> path_to], None)
    /\ hist' = [hist EXCEPT !.saved = self, !.savedTrained = hist.trained]
    /\ data_source' = None
    /\ UNCHANGED <<self, pc, from_data_ds, mixer>>

(***************************************************************************)
(* learn                                                                   *)
(***************************************************************************)
\* Variant: the loop is left after its first element.
FitExhausted_AfterFirst(m) == m.iterations >= 1

\* The for loop over iter_fit has consumed every element.
FitExhausted(m) == m.iterations = FitIterations

Retained(s, m, ds) ==
    [s EXCEPT !._mixer = m,
              !._encoders = ds.encoders,
              !._encoded_cache = ds.encoded_cache,
              !._Predictions = m.output_predictions]

\* learn(from_data) with test_data and validation_data left at None: the
\* Data Source and the Mixer are built, nothing of self is assigned.
LearnBegin(from_data) ==
    /\ pc = "idle"
    /\ Call
    /\ self # EmptyDict
    /\ pc' = "learn"
    /\ from_data_ds' = DataSource(from_data, self.definition)
    /\ mixer' = SkLearnMixer(InputColumnNames(self.definition),
                             OutputColumnNames(self.definition))
    /\ ret' = Outcome("learn", from_data, "running", None, None, FALSE, <<>>)
    /\ data_source' = None
    /\ UNCHANGED <<self, files, hist>>

\* One element of iter_fit is consumed and its index logged.
LearnIterate ==
    /\ pc = "learn"
    /\ ~FitExhausted(mixer)
    /\ LET r == IterFitStep(mixer, from_data_ds)
       IN /\ mixer' = r.mixer
          /\ from_data_ds' = r.ds
    /\ ret' = [ret EXCEPT !.logged = Append(@, mixer.iterations)]
    /\ UNCHANGED <<calls, self, pc, data_source, files, hist>>

\* An element of iter_fit raises: the exception leaves learn.
LearnIterateRaises ==
    /\ pc = "learn"
    /\ ~FitExhausted(mixer)
    /\ pc' = "idle"
    /\ from_data_ds' = None
    /\ mixer' = None
    /\ ret' = [ret EXCEPT !.status = "raised", !.raised = Raise("Exception", <<"iter_fit">>)]
    /\ UNCHANGED <<calls, self, data_source, files, hist>>

\* The loop is over: the four assignments, and learn returns.
LearnReturn ==
    /\ pc = "learn"
    /\ FitExhausted(mixer)
    /\ self' = Retained(self, mixer, from_data_ds)
    /\ pc' = "idle"
    /\ from_data_ds' = None
    /\ mixer' = None
    /\ ret' = [ret EXCEPT !.status = "returned"]
    /\ hist' = [hist EXCEPT !.trained = from_data_ds.data_frame]
    /\ UNCHANGED <<calls, data_source, files>>

(***************************************************************************)
(* predict                                                                 *)
(***************************************************************************)
\* Variant: when_data_ds keeps its own encoders.
PredictDataSource_OwnEncoders(s, when_data) == DataSource(when_data, s.definition)

\* when_data_ds, with the Predictor's encoders assigned to it.
PredictDataSource(s, when_data) ==
    SetEncoders(DataSource(when_data, s.definition), s._encoders)

NoneHasNoPredict ==
    <<"'NoneType' object has no attribute 'predict'">>

\* Mixer.predict changes the Mixer in place, and the Data Source it is given
\* shares the Predictor's encoder dictionary.
AfterPredict(s, r) == [s EXCEPT !._mixer = r.mixer, !._encoders = r.ds.encoders]

predict(s, when_data) ==
    IF s._mixer = None
    THEN [self |-> s,
          ds |-> PredictDataSource(s, when_data),
          ret |-> Raised("predict", when_data, "AttributeError", NoneHasNoPredict)]
    ELSE LET r == MixerPredict(s._mixer, PredictDataSource(s, when_data))
         IN [self |-> AfterPredict(s, r),
             ds |-> r.ds,
             ret |-> Returned("predict", when_data, r.predictions)]

Predict(when_data) ==
    /\ pc = "idle"
    /\ Call
    /\ self # EmptyDict
    /\ LET r == predict(self, when_data)
       IN /\ self' = r.self
          /\ data_source' = r.ds
          /\ ret' = r.ret
    /\ UNCHANGED <<pc, from_data_ds, mixer, files, hist>>

(***************************************************************************)
(* accuracy                                                                *)
(***************************************************************************)
Score(n) == [kind |-> "int", num |-> n, den |-> 1]

\* Variant: the categorical score compares with the encoded predictions.
ColumnScore_Encoded(column_type, y_true, prediction) ==
    IF column_type = "categorical"
    THEN accuracy_score(y_true, prediction[EncodedKey])
    ELSE IF column_type = "numeric" THEN Score(0)
    ELSE None

ColumnScore(column_type, y_true, prediction) ==
    IF column_type = "categorical"
    THEN accuracy_score(y_true, prediction[ActualKey])
    ELSE IF column_type = "numeric" THEN Score(0)
    ELSE None

\* from_data_ds as accuracy hands it to Mixer.predict.
AccuracyDataSource(s, from_data) == DataSource(from_data, s.definition)

\* Variant: accuracy retains the encoders and the cache of its Data Source.
AfterAccuracy_Retains(s, r) ==
    [s EXCEPT !._mixer = r.mixer,
              !._encoders = r.ds.encoders,
              !._encoded_cache = r.ds.encoded_cache]

\* Mixer.predict changes the Mixer in place.
AfterAccuracy(s, r) == [s EXCEPT !._mixer = r.mixer]

accuracy(s, from_data) ==
    IF s._mixer = None
    THEN [self |-> s, ds |-> None, ret |-> LoggingLogError("accuracy", from_data)]
    ELSE LET r == MixerPredict(s._mixer, AccuracyDataSource(s, from_data))
             accuracies ==
                 [c \in Range(s._mixer.output_column_names) |->
                     ColumnScore(get_column_config(r.ds.configuration, c).type,
                                 get_column_original_data(r.ds, c),
                                 r.predictions[c])]
         IN [self |-> AfterAccuracy(s, r),
             ds |-> r.ds,
             ret |-> Returned("accuracy", from_data, [accuracies |-> accuracies])]

Accuracy(from_data) ==
    /\ pc = "idle"
    /\ Call
    /\ self # EmptyDict
    /\ LET r == accuracy(self, from_data)
       IN /\ self' = r.self
          /\ data_source' = r.ds
          /\ ret' = r.ret
    /\ UNCHANGED <<pc, from_data_ds, mixer, files, hist>>

(***************************************************************************)
(* accuracy_of_columns                                                     *)
(***************************************************************************)
TargetColumnLists == {<<"x">>, <<"z">>}

\* Variant: y_pred comes from the Mixer's current output_predictions.
StoredPredictions_OfMixer(s) ==
    IF s._mixer = None THEN None ELSE s._mixer.output_predictions

\* y_pred comes from self._Predictions.
StoredPredictions(s) == s._Predictions

accuracy_of_columns(s, target_columns) ==
    LET arg == [target_columns |-> target_columns]
        missing ==
            {i \in DOMAIN target_columns :
                \/ target_columns[i] \notin DOMAIN s._encoded_cache
                \/ target_columns[i] \notin DOMAIN StoredPredictions(s)}
        score(c) ==
            explained_variance_score(s._encoded_cache[c],
                                     StoredPredictions(s)[c][EncodedKey])
    IN IF s._mixer = None
       THEN LoggingLogError("accuracy_of_columns", arg)
       ELSE IF missing # {}
       THEN Raised("accuracy_of_columns", arg, "KeyError",
                   <<target_columns[Min(missing)]>>)
       ELSE IF \E c \in Range(target_columns) : score(c).kind = "ValueError"
       THEN Raised("accuracy_of_columns", arg, "ValueError",
                   <<"Found input variables with inconsistent numbers of samples">>)
       ELSE Returned("accuracy_of_columns", arg,
                     [accuracies |-> [c \in Range(target_columns) |-> score(c)]])

AccuracyOfColumns(target_columns) ==
    /\ pc = "idle"
    /\ Call
    /\ self # EmptyDict
    /\ ret' = accuracy_of_columns(self, target_columns)
    /\ data_source' = None
    /\ UNCHANGED <<self, pc, from_data_ds, mixer, files, hist>>

(***************************************************************************)
(* The specification.                                                      *)
(***************************************************************************)
Init ==
    /\ self = EmptyDict
    /\ pc = "idle"
    /\ from_data_ds = None
    /\ mixer = None
    /\ data_source = None
    /\ files = [p \in Paths |-> None]
    /\ ret = Returned("none", None, None)
    /\ hist = [trained |-> None, saved |-> None, savedTrained |-> None]
    /\ calls \in {[n |-> 0, limited |-> FALSE]}

Next ==
    \/ \E definition \in Definitions \cup {None} : Construct(definition)
    \/ \E from_data \in Tables : LearnBegin(from_data)
    \/ LearnIterate
    \/ LearnIterateRaises
    \/ LearnReturn
    \/ \E when_data \in Tables : Predict(when_data)
    \/ \E from_data \in Tables : Accuracy(from_data)
    \/ \E target_columns \in TargetColumnLists : AccuracyOfColumns(target_columns)

Spec == Init /\ [][Next]_vars

\* Persistence: the same calls with save and load_from_path, MaxCalls calls a run.
InitPersist ==
    /\ self = EmptyDict
    /\ pc = "idle"
    /\ from_data_ds = None
    /\ mixer = None
    /\ data_source = None
    /\ files = [p \in Paths |-> None]
    /\ ret = Returned("none", None, None)
    /\ hist = [trained |-> None, saved |-> None, savedTrained |-> None]
    /\ calls \in {[n |-> 0, limited |-> TRUE]}

NextPersist ==
    \/ \E definition \in Definitions \cup {None} : Construct(definition)
    \/ \E load_from_path \in Paths : ConstructLoad(load_from_path)
    \/ \E path_to \in Paths : Save(path_to)
    \/ \E from_data \in Tables : LearnBegin(from_data)
    \/ LearnIterate
    \/ LearnIterateRaises
    \/ LearnReturn
    \/ \E when_data \in Tables : Predict(when_data)
    \/ \E from_data \in Tables : Accuracy(from_data)
    \/ \E target_columns \in TargetColumnLists : AccuracyOfColumns(target_columns)

SpecPersist == InitPersist /\ [][NextPersist]_vars

(***************************************************************************)
(* Properties.                                                             *)
(***************************************************************************)
IsReturn(op) == ret.op = op /\ ret.status = "returned"

OutputNames(definition) ==
    {definition.output_features[i].name : i \in DOMAIN definition.output_features}

Untrained == self # EmptyDict /\ self._mixer = None

\* C1: on a Predictor whose mixer is None, accuracy and accuracy_of_columns
\* report the "not trained" condition and raise no unrelated attribute error.
C1_NotTrainedIsReported ==
    (ret.op \in {"accuracy", "accuracy_of_columns"} /\ Untrained)
        => /\ NotTrainedMessage \in Range(ret.logged)
           /\ ret.status = "raised" => ret.raised.type # "AttributeError"

C3_PredictEncodesWithRetainedEncoders ==
    IsReturn("predict")
        => /\ data_source.encoders = self._encoders
           /\ \A c \in DOMAIN data_source.encoded_cache :
                /\ data_source.encoders[c] =
                     FitEncoder(get_column_config(self.definition, c).type,
                                hist.trained[c])
                /\ data_source.encoded_cache[c] =
                     EncodeColumn(self._encoders[c], ret.arg[c])
                /\ \A i \in DOMAIN ret.arg[c], j \in DOMAIN hist.trained[c] :
                     ret.arg[c][i] = hist.trained[c][j]
                         => data_source.encoded_cache[c][i] = self._encoded_cache[c][j]

\* A predict whose table shares a raw value with the training table and on which
\* a newly fitted encoder would differ from the retained one.
C3_Witness ==
    /\ IsReturn("predict")
    /\ \E c \in DOMAIN data_source.encoded_cache :
         /\ \E i \in DOMAIN ret.arg[c], j \in DOMAIN hist.trained[c] :
              ret.arg[c][i] = hist.trained[c][j]
         /\ FitEncoder(get_column_config(self.definition, c).type, ret.arg[c])
              # self._encoders[c]

\* C4: the Data Source accuracy hands to Mixer.predict carries the retained
\* training encoders, so accuracy scores the predictions predict returns for
\* the same table.
C4_AccuracyUsesRetainedEncoders ==
    IsReturn("accuracy")
        => /\ \A c \in DOMAIN data_source.encoded_cache :
                data_source.encoders[c] = self._encoders[c]
           /\ self._mixer.output_predictions = predict(self, ret.arg).ret.value

C6_AccuracyIdempotent ==
    [][(ret'.op = "accuracy" /\ ret'.status = "returned" /\ pc = "idle")
        => /\ self'.definition = self.definition
           /\ self'._encoders = self._encoders
           /\ self'._encoded_cache = self._encoded_cache
           /\ self'._Predictions = self._Predictions
           /\ self'._mixer =
                [self._mixer EXCEPT !.output_predictions = self'._mixer.output_predictions]
           /\ files' = files
           /\ accuracy(self', ret'.arg).ret.value = ret'.value
           /\ accuracy(self', ret'.arg).self = self'
           /\ (ret.op = "accuracy" /\ ret.status = "returned" /\ ret.arg = ret'.arg)
                => ret'.value = ret.value]_vars

\* An accuracy call that has overwritten the Mixer's stored predictions.
C6_Witness ==
    /\ IsReturn("accuracy")
    /\ self._mixer.output_predictions # self._Predictions

\* C7: accuracy returns one score per output column of the Mixer; for a
\* categorical column the fraction of rows whose original value equals the
\* Actual Prediction (1 when all match, 0 when none does), for a numeric
\* column 0, for any other type None.
C7_ScorePerColumnType ==
    IsReturn("accuracy")
        => /\ DOMAIN ret.value = {"accuracies"}
           /\ DOMAIN ret.value.accuracies = Range(self._mixer.output_column_names)
           /\ \A c \in DOMAIN ret.value.accuracies :
                LET type == get_column_config(self.definition, c).type
                    truth == ret.arg[c]
                    actual == self._mixer.output_predictions[c][ActualKey]
                    matches == {i \in DOMAIN truth : truth[i] = actual[i]}
                    score == ret.value.accuracies[c]
                IN IF type = "categorical"
                   THEN /\ score.kind = "fraction"
                        /\ score.num = Cardinality(matches)
                        /\ score.den = Len(truth)
                        /\ matches = DOMAIN truth => score.num = score.den
                        /\ matches = {} => score.num = 0
                   ELSE IF type = "numeric"
                   THEN score = [kind |-> "int", num |-> 0, den |-> 1]
                   ELSE score = None

\* A categorical output column of two rows, every prediction matching.
C7_Witness ==
    /\ IsReturn("accuracy")
    /\ \E c \in DOMAIN ret.value.accuracies :
         /\ get_column_config(self.definition, c).type = "categorical"
         /\ ret.value.accuracies[c].num = 2
         /\ ret.value.accuracies[c].den = 2
         /\ Range(ret.arg[c]) = Values

\* C8: the constructor validates exactly when it is given a definition: an
\* invalid definition raises the bad-definition error with the validator's
\* detail and no attribute is set; a load path installs the pickled
\* dictionary and the validator is not called.
C8_ValidationGuardsDefinitionPath ==
    [][(ret'.op = "__init__" /\ calls' # calls)
        => IF ret'.arg.load_from_path # NoPath
           THEN /\ ~ret'.validated
                /\ files[ret'.arg.load_from_path] # None
                     => /\ ret'.status = "returned"
                        /\ self' = Load(files[ret'.arg.load_from_path])
           ELSE /\ ret'.validated
                /\ IF SchemaError(ret'.arg.definition) # "ok"
                   THEN /\ ret'.status = "raised"
                        /\ ret'.raised.type = "ValueError"
                        /\ ret'.raised.msg[2] = SchemaError(ret'.arg.definition)
                        /\ self' = self
                   ELSE /\ ret'.status = "returned"
                        /\ self' = InitialAttributes(ret'.arg.definition)]_vars

\* A fitted Predictor installed from a file.
C8_Witness ==
    /\ IsReturn("__init__")
    /\ ret.arg.load_from_path # NoPath
    /\ ~ret.validated
    /\ self._mixer # None

\* C9 as stated: accuracy_of_columns compares the training encoded_cache with
\* the Encoded Predictions in the Mixer's current output_predictions.
C9_ComparesCurrentOutputPredictions ==
    IsReturn("accuracy_of_columns")
        => \A c \in Range(ret.arg.target_columns) :
              ret.value.accuracies[c] =
                  explained_variance_score(
                      self._encoded_cache[c],
                      self._mixer.output_predictions[c][EncodedKey])

\* C9 amended: accuracy_of_columns compares the training encoded_cache with the
\* Encoded Predictions the Predictor retained when learn returned, which are
\* the fitted model's predictions on the training table; later Mixer.predict
\* calls do not change them.
C9_ComparesPredictionsRetainedByLearn ==
    IsReturn("accuracy_of_columns")
        => /\ self._Predictions =
                MixerPredict(self._mixer,
                             SetEncoders(DataSource(hist.trained, self.definition),
                                         self._encoders)).predictions
           /\ \A c \in Range(ret.arg.target_columns) :
                ret.value.accuracies[c] =
                    explained_variance_score(self._encoded_cache[c],
                                             self._Predictions[c][EncodedKey])

\* accuracy_of_columns after a call that overwrote the Mixer's predictions.
C9_Witness ==
    /\ IsReturn("accuracy_of_columns")
    /\ self._mixer.output_predictions # self._Predictions

\* C10: learn assigns mixer, encoders and encoded_cache in one step, only when
\* every element of iter_fit has been consumed, all from the same training
\* Data Source and Mixer; until then, and when an element raises, the
\* Predictor's attributes stay as they were before the call.
C10_LearnCommitsAfterFit ==
    [][/\ (pc = "learn" /\ mixer.iterations # FitIterations) => self' = self
       /\ (ret'.op = "learn" /\ ret'.status = "raised") => self' = self
       /\ (pc = "idle" /\ pc' = "learn") => self' = self
       /\ (pc = "learn" /\ self' # self)
            => /\ mixer.iterations = FitIterations
               /\ ret'.status = "returned"
               /\ DOMAIN from_data_ds.encoded_cache = Columns
               /\ self' = [self EXCEPT !._mixer = mixer,
                                       !._encoders = from_data_ds.encoders,
                                       !._encoded_cache = from_data_ds.encoded_cache,
                                       !._Predictions = mixer.output_predictions]]_vars

\* A learn that raised on a Predictor that had learnt before.
C10_Witness ==
    /\ ret.op = "learn"
    /\ ret.status = "raised"
    /\ self._mixer # None
    /\ hist.trained # ret.arg

====
